---- MODULE Spec2Model ----
(***************************************************************************)
(* Streaming transducers of claude-api-proxy: the OpenAI-SSE to Anthropic  *)
(* event translators.  Three implementations live in the repository:       *)
(*   "transformer" - createOpenAIToAnthropicStreamTransformer driving a    *)
(*                   StreamStateMachine (converters/streaming)             *)
(*   "handleStream"- handlers/messages/stream.ts over AI-SDK stream parts  *)
(*   "comparator"  - ChunkComparator (pairwise chunk comparison)           *)
(* Each behaviour of the model runs one of them on one request.            *)
(***************************************************************************)
EXTENDS Integers, Sequences, FiniteSets, TLC

VARIABLES impl, out, fed, nIn, closed,
          started, sentStop, chunkCount, buffer, stateMachine,
          hs, cc,
          wire, legacy, cancelled, readsAfterCancel,
          pc, request, upstream, upstreamCalls, response,
          streams, lastActed, turns,
          converter, config, anthropicRequest, openaiRequest, targetHeaders,
          callOptions,
          openaiResponse, anthropicResponse

\* One request's stream translation.
streamVars == <<impl, out, fed, nIn, closed,
                started, sentStop, chunkCount, buffer, stateMachine, hs, cc,
                wire, legacy, cancelled, readsAfterCancel>>

\* One call of handleMessagesProxy.
handlerVars == <<pc, request, upstream, upstreamCalls, response>>

\* Several requests whose streams are translated at the same time.
concurrentVars == <<streams, lastActed, turns>>

\* The conversion of one request and of its non-streaming reply.
converterVars == <<converter, config, anthropicRequest, openaiRequest,
                   targetHeaders, openaiResponse, anthropicResponse,
                   callOptions>>

vars == <<streamVars, handlerVars, concurrentVars, converterVars>>

\* Number of writes / stream parts / chunks one request delivers.
MaxInputs == 4

\* Number of writes each of the concurrent requests delivers.
MaxStreamWrites == 2

-----------------------------------------------------------------------------
(* Anthropic events, as enqueued on the output controller.                 *)

NoIndex == -1

\* The output tokens an upstream usage tally of the model reports.
TokensReported == 5

\* usage is the event's usage.output_tokens (0 where the event has none).
Event(type, index, kind, text, id, name, stop_reason) ==
  [type |-> type, index |-> index, kind |-> kind, text |-> text,
   id |-> id, name |-> name, stop_reason |-> stop_reason, usage |-> 0]

WithUsage(ev, n) == [ev EXCEPT !.usage = n]

MessageStartEvent ==
  Event("message_start", NoIndex, "none", <<>>, "null", "null", "null")
TextBlockStart(i) ==
  Event("content_block_start", i, "text", <<>>, "null", "null", "null")
ToolBlockStart(i, id, name) ==
  Event("content_block_start", i, "tool_use", <<>>, id, name, "null")
TextDelta(i, t) ==
  Event("content_block_delta", i, "text_delta", t, "null", "null", "null")
InputJsonDelta(i, a) ==
  Event("content_block_delta", i, "input_json_delta", a, "null", "null", "null")
BlockStop(i) ==
  Event("content_block_stop", i, "none", <<>>, "null", "null", "null")
MessageDelta(stop_reason) ==
  Event("message_delta", NoIndex, "none", <<>>, "null", "null", stop_reason)
MessageStopEvent ==
  Event("message_stop", NoIndex, "none", <<>>, "null", "null", "null")
ErrorEvent ==
  Event("error", NoIndex, "none", <<>>, "null", "null", "null")
\* The record formatSSE(null) writes: data: [DONE]
DoneRecord ==
  Event("[DONE]", NoIndex, "none", <<>>, "null", "null", "null")

-----------------------------------------------------------------------------
(* OpenAI stream chunks (the JSON payload of one data: line).              *)
(* A string is a sequence of letters; <<>> is the empty/absent string,     *)
(* which JavaScript truthiness does not tell apart.                        *)

ToolCall(index, id, name, arguments) ==
  [index |-> index, id |-> id, name |-> name, arguments |-> arguments]

Chunk(hasDelta, content, hasToolCalls, tool_calls, finish_reason) ==
  [kind |-> "chunk", hasDelta |-> hasDelta, content |-> content,
   hasToolCalls |-> hasToolCalls, tool_calls |-> tool_calls,
   finish_reason |-> finish_reason, usage |-> 0]

DoneMarker ==
  [kind |-> "done", hasDelta |-> FALSE, content |-> <<>>,
   hasToolCalls |-> FALSE, tool_calls |-> <<>>, finish_reason |-> "null",
   usage |-> 0]

RoleChunk      == Chunk(TRUE, <<>>, FALSE, <<>>, "null")
TextChunk(t)   == Chunk(TRUE, t, FALSE, <<>>, "null")
ToolChunk(tcs) == Chunk(TRUE, <<>>, TRUE, tcs, "null")
FinishChunk(r) == Chunk(TRUE, <<>>, FALSE, <<>>, r)

\* The last chunk of a stream, with the usage tally (usage.completion_tokens).
UsageChunk == [FinishChunk("stop") EXCEPT !.usage = TokensReported]

Chunks ==
  { RoleChunk,
    TextChunk(<<"a">>), TextChunk(<<"b">>),
    ToolChunk(<<ToolCall(0, "t0", "f", <<"x">>)>>),
    ToolChunk(<<ToolCall(0, "null", "null", <<"y">>)>>),
    ToolChunk(<<ToolCall(1, "t1", "g", <<"x">>)>>),
    ToolChunk(<<ToolCall(0, "t0", "f", <<>>), ToolCall(1, "t1", "g", <<>>)>>),
    Chunk(TRUE, <<"a">>, TRUE, <<ToolCall(0, "t0", "f", <<"x">>)>>, "null"),
    FinishChunk("stop"), FinishChunk("tool_calls"), FinishChunk("length"),
    UsageChunk }

Payloads == Chunks \cup {DoneMarker}

\* The payload of a line that is "data: " and nothing else.
EmptyData == [DoneMarker EXCEPT !.kind = "empty"]

-----------------------------------------------------------------------------
(* Bytes of the upstream body.  A data: line is written either whole       *)
(* (Full), or as a head piece carrying the "data: " prefix and a tail      *)
(* piece; NL is the line feed.  The letter "b" stands for a character      *)
(* that UTF-8 encodes on two bytes: CutHead(p) is the line of p up to and  *)
(* including the first of the two bytes, CutTail(p) the rest.              *)

NL           == [t |-> "nl",   p |-> DoneMarker]
FullLine(p)  == [t |-> "full", p |-> p]
HeadPiece(p) == [t |-> "head", p |-> p]
TailPiece(p) == [t |-> "tail", p |-> p]
CutHead(p)   == [t |-> "cuthead", p |-> p]
CutTail(p)   == [t |-> "cuttail", p |-> p]

SplitPayloads == {TextChunk(<<"a">>)}
CutPayloads == {TextChunk(<<"b">>)}
UnterminatedPayloads == {FinishChunk("stop"), DoneMarker}

Writes ==
  { <<FullLine(p), NL>> : p \in Payloads }
  \cup { <<HeadPiece(p)>> : p \in SplitPayloads }
  \cup { <<TailPiece(p), NL>> : p \in SplitPayloads }
  \cup { <<CutHead(p)>> : p \in CutPayloads }
  \cup { <<CutTail(p), NL>> : p \in CutPayloads }
  \cup { <<FullLine(p)>> : p \in UnterminatedPayloads }
  \cup { <<FullLine(EmptyData), NL>> }

\* Decoded text whose two-byte character was cut between two decode calls:
\* each half decodes to one replacement character U+FFFD, written "?".
BadHead(p) == [t |-> "badhead", p |-> p]
BadTail(p) == [t |-> "badtail", p |-> p]

\* What the line of p spells once its cut character has been replaced.
Garbled(p) == [p EXCEPT !.content = <<"?", "?">>]

\* new TextDecoder().decode(chunk): a fresh decoder for every call, so a
\* character is decoded only when both of its bytes are in the same call.
RECURSIVE Decode(_)
Decode(bytes) ==
  IF bytes = <<>> THEN <<>>
  ELSE IF Head(bytes).t = "cuthead"
  THEN IF Len(bytes) >= 2 /\ bytes[2] = CutTail(Head(bytes).p)
       THEN <<HeadPiece(Head(bytes).p), TailPiece(Head(bytes).p)>>
              \o Decode(SubSeq(bytes, 3, Len(bytes)))
       ELSE <<BadHead(Head(bytes).p)>> \o Decode(Tail(bytes))
  ELSE IF Head(bytes).t = "cuttail"
  THEN <<BadTail(Head(bytes).p)>> \o Decode(Tail(bytes))
  ELSE <<Head(bytes)>> \o Decode(Tail(bytes))

\* text.split('\n'): the pieces between line feeds, the last one included.
RECURSIVE SplitLines(_, _)
SplitLines(bytes, cur) ==
  IF bytes = <<>> THEN <<cur>>
  ELSE IF Head(bytes).t = "nl"
       THEN <<cur>> \o SplitLines(Tail(bytes), <<>>)
       ELSE SplitLines(Tail(bytes), Append(cur, Head(bytes)))

\* startsWith('data: '): only a whole line or a head piece carries the prefix.
StartsWithData(line) == line # <<>> /\ line[1].t \in {"full", "head", "badhead"}

\* The payload p is what the line spells.
Spells(line, p) ==
  \/ line = <<FullLine(p)>>
  \/ line = <<HeadPiece(p), TailPiece(p)>>
  \/ \E q \in CutPayloads : p = Garbled(q) /\ line = <<BadHead(q), BadTail(q)>>

IsDoneLine(line) == Spells(line, DoneMarker)

\* if (data): the payload of the line is the empty string.
IsEmptyData(line) == line = <<FullLine(EmptyData)>>

\* JSON.parse succeeds exactly on a line that spells one chunk.
ParsableChunks == Chunks \cup {Garbled(q) : q \in CutPayloads}

ParsesAsChunk(line) == \E p \in ParsableChunks : Spells(line, p)
ParsedChunk(line)   == CHOOSE p \in ParsableChunks : Spells(line, p)

-----------------------------------------------------------------------------
(* StreamStateMachine.  Operators take and return a context                *)
(* [sm |-> the machine's fields, out |-> the controller's queue].          *)

IDLE         == "idle"
TEXT_CONTENT == "text_content"
TOOL_CALLS   == "tool_calls"

NoToolCallState == [id |-> "null", name |-> "null", args |-> <<>>]

StreamStateMachineInit ==
  [currentState |-> IDLE, currentBlockIndex |-> 0,
   toolCallState |-> [i \in {} |-> NoToolCallState],
   emittedToolStarts |-> {}, finalized |-> FALSE]

Enqueue(c, ev) == [c EXCEPT !.out = Append(@, ev)]

hasSawToolCalls(sm) == DOMAIN sm.toolCallState # {}

getStopReason(sm) == IF hasSawToolCalls(sm) THEN "tool_use" ELSE "end_turn"

\* typeof tc.index === 'number' ? tc.index : 0   (NoIndex: no numeric index)
ToolIdx(tc) == IF tc.index = NoIndex THEN 0 ELSE tc.index

SynthId(idx) == IF idx = 0 THEN "toolu_0" ELSE IF idx = 1 THEN "toolu_1" ELSE "toolu_n"

\* a ?? b on the "null" marker
Coalesce(a, b) == IF a # "null" THEN a ELSE b

MapSet(m, k, v) == [i \in DOMAIN m \cup {k} |-> IF i = k THEN v ELSE m[i]]

transition(c, newState) ==
  LET closedCur == IF c.sm.currentState # IDLE
                   THEN Enqueue(c, BlockStop(c.sm.currentBlockIndex)) ELSE c
      moved == [closedCur EXCEPT
                  !.sm.currentState = newState,
                  !.sm.currentBlockIndex =
                      IF newState = TOOL_CALLS THEN @ + 1 ELSE @]
  IN  IF newState = TEXT_CONTENT THEN Enqueue(moved, TextBlockStart(0)) ELSE moved

processToolCallDelta(c, tc) ==
  LET idx        == ToolIdx(tc)
      blockIndex == idx + 1
      prev == IF idx \in DOMAIN c.sm.toolCallState
              THEN c.sm.toolCallState[idx] ELSE NoToolCallState
      id   == Coalesce(tc.id, prev.id)
      name == Coalesce(tc.name, prev.name)
      args == prev.args \o tc.arguments
      c1 == IF name # "null" /\ idx \notin c.sm.emittedToolStarts
            THEN [Enqueue(c, ToolBlockStart(blockIndex,
                                IF id # "null" THEN id ELSE SynthId(idx), name))
                    EXCEPT !.sm.emittedToolStarts = @ \cup {idx}]
            ELSE c
      c2 == IF tc.arguments # <<>> /\ idx \in c1.sm.emittedToolStarts
            THEN Enqueue(c1, InputJsonDelta(blockIndex, tc.arguments))
            ELSE c1
  IN  [c2 EXCEPT !.sm.toolCallState =
                    MapSet(@, idx, [id |-> id, name |-> name, args |-> args])]

RECURSIVE processToolCallDeltas(_, _)
processToolCallDeltas(c, toolCalls) ==
  IF toolCalls = <<>> THEN c
  ELSE processToolCallDeltas(processToolCallDelta(c, Head(toolCalls)),
                             Tail(toolCalls))

emitContent(c, delta) ==
  IF c.sm.currentState = TEXT_CONTENT /\ delta.content # <<>>
  THEN Enqueue(c, TextDelta(0, delta.content))
  ELSE IF c.sm.currentState = TOOL_CALLS /\ delta.hasToolCalls
       THEN processToolCallDeltas(c, delta.tool_calls)
       ELSE c

\* Stops, in ascending tool index, every tool block still in emittedToolStarts.
RECURSIVE completeToolCalls(_)
completeToolCalls(c) ==
  LET open == DOMAIN c.sm.toolCallState \cap c.sm.emittedToolStarts
  IN  IF open = {} THEN c
      ELSE LET toolIndex == CHOOSE i \in open : \A j \in open : i <= j
           IN  completeToolCalls(
                 [Enqueue(c, BlockStop(toolIndex + 1))
                    EXCEPT !.sm.emittedToolStarts = @ \ {toolIndex}])

processChunk(c, chunk) ==
  IF ~chunk.hasDelta THEN c
  ELSE
    LET newState == IF chunk.content # <<>> THEN TEXT_CONTENT
                    ELSE IF chunk.hasToolCalls THEN TOOL_CALLS
                    ELSE c.sm.currentState
        c1 == IF newState # c.sm.currentState THEN transition(c, newState) ELSE c
        c2 == emitContent(c1, chunk)
    IN  IF chunk.finish_reason = "tool_calls" THEN completeToolCalls(c2) ELSE c2

finalize(c) ==
  IF c.sm.finalized THEN c
  ELSE LET c1 == completeToolCalls([c EXCEPT !.sm.finalized = TRUE])
       IN  IF c1.sm.currentState = TEXT_CONTENT
           THEN Enqueue(c1, BlockStop(0)) ELSE c1

-----------------------------------------------------------------------------
(* createOpenAIToAnthropicStreamTransformer.  Its context adds the         *)
(* closure variables started, sentStop, chunkCount, and fed: the payloads  *)
(* (chunks and [DONE] markers) read from well-formed data: lines so far.   *)

RECURSIVE EnqueueAll(_, _)
EnqueueAll(c, evs) ==
  IF evs = <<>> THEN c ELSE EnqueueAll(Enqueue(c, Head(evs)), Tail(evs))

\* Finalizes the state machine on the controller, then returns the two
\* terminal events for the caller to enqueue.
buildFinalizationEvents(c) ==
  LET c1 == finalize(c)
  IN  [c |-> c1,
       finalEvents |-> <<MessageDelta(getStopReason(c1.sm)), MessageStopEvent>>]

\* A transformer that reports the line it cannot parse to the client.
ReportParseError(c) == Enqueue(c, ErrorEvent)

\* catch (error) { console.error(...) }: the line is logged and skipped.
SkipLine(c) == c

\* The body of the for-loop of transform(), and of flush() when inFlush.
ProcessLine(c, line, inFlush) ==
  IF ~StartsWithData(line) THEN c
  ELSE IF IsDoneLine(line) THEN
    LET seen == [c EXCEPT !.fed = Append(@, DoneMarker)]
    IN  IF c.started /\ ~c.sentStop
        THEN LET b == buildFinalizationEvents(seen)
             IN  [EnqueueAll(b.c, b.finalEvents) EXCEPT !.sentStop = TRUE]
        ELSE seen
  ELSE IF ParsesAsChunk(line) THEN
    LET openaiChunk == ParsedChunk(line)
        counted == IF inFlush THEN c ELSE [c EXCEPT !.chunkCount = @ + 1]
        first   == IF inFlush THEN ~c.started /\ c.chunkCount = 0 ELSE ~c.started
        c1 == IF first
              THEN [Enqueue(counted, MessageStartEvent) EXCEPT !.started = TRUE]
              ELSE counted
    IN  [processChunk(c1, openaiChunk) EXCEPT !.fed = Append(@, openaiChunk)]
  ELSE IF IsEmptyData(line) THEN c
  ELSE SkipLine(c)

RECURSIVE ProcessLines(_, _)
ProcessLines(c, lines) ==
  IF lines = <<>> THEN c
  ELSE ProcessLines(ProcessLine(c, Head(lines), FALSE), Tail(lines))

\* The closure state right after createOpenAIToAnthropicStreamTransformer().
TransformerStart ==
  [started |-> FALSE, sentStop |-> FALSE, chunkCount |-> 0,
   sm |-> StreamStateMachineInit, out |-> <<>>, fed |-> <<>>]

TransformerContext ==
  [started |-> started, sentStop |-> sentStop, chunkCount |-> chunkCount,
   sm |-> stateMachine, out |-> out, fed |-> fed]

StoreTransformer(c) ==
  /\ started' = c.started
  /\ sentStop' = c.sentStop
  /\ chunkCount' = c.chunkCount
  /\ stateMachine' = c.sm
  /\ out' = c.out
  /\ fed' = c.fed

\* transform(chunk, controller)
Transform(bytes) ==
  /\ impl = "transformer"
  /\ ~closed
  /\ nIn < MaxInputs
  /\ LET lines == SplitLines(buffer \o Decode(bytes), <<>>)
     IN  /\ buffer' = lines[Len(lines)]
         /\ StoreTransformer(
              ProcessLines(TransformerContext, SubSeq(lines, 1, Len(lines) - 1)))
  /\ nIn' = nIn + 1
  /\ wire' = wire \o bytes
  /\ UNCHANGED <<impl, closed, hs, cc, legacy, cancelled,
                 readsAfterCancel>>
  /\ UNCHANGED handlerVars
  /\ UNCHANGED concurrentVars
  /\ UNCHANGED converterVars

\* flush(controller): the upstream body has ended.
Flush ==
  /\ impl = "transformer"
  /\ ~closed
  /\ StoreTransformer(
       IF buffer # <<>> THEN ProcessLine(TransformerContext, buffer, TRUE)
       ELSE TransformerContext)
  /\ closed' = TRUE
  /\ UNCHANGED <<impl, nIn, buffer, hs, cc, wire, legacy, cancelled,
                 readsAfterCancel>>
  /\ UNCHANGED handlerVars
  /\ UNCHANGED concurrentVars
  /\ UNCHANGED converterVars

-----------------------------------------------------------------------------
(* handleStream: one iteration of the read loop per AI-SDK stream part.    *)

Part(type, delta, id, toolName, finishReason, hasUsage) ==
  [type |-> type, delta |-> delta, id |-> id, toolName |-> toolName,
   finishReason |-> finishReason, hasUsage |-> hasUsage,
   outputTokens |-> IF hasUsage THEN TokensReported ELSE 0]

SimplePart(type)  == Part(type, <<>>, "null", "null", "null", FALSE)
DeltaPart(type, d) == Part(type, d, "null", "null", "null", FALSE)
FinishPart(r, u)  == Part("finish", <<>>, "null", "null", r, u)

Parts ==
  { SimplePart("stream-start"),
    SimplePart("text-start"), DeltaPart("text-delta", <<"a">>),
    DeltaPart("text-delta", <<"b">>), SimplePart("text-end"),
    SimplePart("reasoning-start"), DeltaPart("reasoning-delta", <<"r">>),
    SimplePart("reasoning-end"),
    Part("tool-input-start", <<>>, "t0", "f", "null", FALSE),
    DeltaPart("tool-input-delta", <<"x">>), SimplePart("tool-input-end"),
    SimplePart("tool-call"),
    FinishPart("stop", TRUE), FinishPart("stop", FALSE),
    FinishPart("length", TRUE),
    SimplePart("error") }

HandleStreamInit ==
  [contentBlockIndex |-> 0, messageStartSent |-> FALSE, activeBlockType |-> "null"]

\* The switch statement; h is [hs |-> locals, out |-> queue].
HandlePartCase(h, value) ==
  LET idx == h.hs.contentBlockIndex
      act == h.hs.activeBlockType
  IN
  CASE value.type = "stream-start" ->
         IF ~h.hs.messageStartSent
         THEN [Enqueue(h, MessageStartEvent) EXCEPT !.hs.messageStartSent = TRUE]
         ELSE h
    [] value.type = "text-start" ->
         [Enqueue(h, TextBlockStart(idx)) EXCEPT !.hs.activeBlockType = "text"]
    [] value.type = "text-delta" ->
         LET h1 == IF act # "text"
                   THEN [Enqueue(h, TextBlockStart(idx + 1))
                           EXCEPT !.hs.contentBlockIndex = idx + 1,
                                  !.hs.activeBlockType = "text"]
                   ELSE h
         IN  Enqueue(h1, TextDelta(h1.hs.contentBlockIndex, value.delta))
    [] value.type = "text-end" ->
         IF act = "text"
         THEN [Enqueue(h, BlockStop(idx))
                 EXCEPT !.hs.contentBlockIndex = idx + 1,
                        !.hs.activeBlockType = "null"]
         ELSE h
    [] value.type = "reasoning-start" ->
         [Enqueue(h, TextBlockStart(idx)) EXCEPT !.hs.activeBlockType = "reasoning"]
    [] value.type = "reasoning-delta" ->
         Enqueue(h, TextDelta(idx, value.delta))
    [] value.type = "reasoning-end" ->
         IF act = "reasoning"
         THEN [Enqueue(h, BlockStop(idx))
                 EXCEPT !.hs.contentBlockIndex = idx + 1,
                        !.hs.activeBlockType = "null"]
         ELSE h
    [] value.type = "tool-input-start" ->
         LET h1 == IF act = "text"
                   THEN [Enqueue(h, BlockStop(idx))
                           EXCEPT !.hs.contentBlockIndex = idx + 1]
                   ELSE h
         IN  [Enqueue(h1, ToolBlockStart(h1.hs.contentBlockIndex,
                                         value.id, value.toolName))
                EXCEPT !.hs.activeBlockType = "tool"]
    [] value.type = "tool-input-end" ->
         IF act = "tool"
         THEN [Enqueue(h, BlockStop(idx))
                 EXCEPT !.hs.contentBlockIndex = idx + 1,
                        !.hs.activeBlockType = "null"]
         ELSE h
    [] value.type = "tool-call" -> h
    [] value.type = "tool-input-delta" ->
         Enqueue(h, InputJsonDelta(idx, value.delta))
    [] value.type = "finish" ->
         IF value.hasUsage
         THEN Enqueue(h, WithUsage(MessageDelta(IF value.finishReason = "stop"
                                                THEN "end_turn"
                                                ELSE value.finishReason),
                                   value.outputTokens))
         ELSE h
    [] value.type = "error" -> Enqueue(h, ErrorEvent)
    [] OTHER -> h

\* reader.read() returned a part.  Once the client has cancelled the
\* response body, controller.enqueue throws; the catch block ends the loop.
HandlePart(value) ==
  /\ impl = "handleStream"
  /\ ~closed
  /\ nIn < MaxInputs
  /\ LET h == HandlePartCase([hs |-> hs, out |-> out], value)
     IN  IF cancelled /\ h.out # out
         THEN closed' = TRUE /\ UNCHANGED <<hs, out>>
         ELSE hs' = h.hs /\ out' = h.out /\ UNCHANGED closed
  /\ fed' = Append(fed, value)
  /\ nIn' = nIn + 1
  /\ readsAfterCancel' = IF cancelled THEN readsAfterCancel + 1 ELSE readsAfterCancel
  /\ UNCHANGED <<impl, started, sentStop, chunkCount, buffer,
                 stateMachine, cc, wire, legacy, cancelled>>
  /\ UNCHANGED handlerVars
  /\ UNCHANGED concurrentVars
  /\ UNCHANGED converterVars

\* reader.read() returned done: message_stop, controller.close().
HandleStreamDone ==
  /\ impl = "handleStream"
  /\ ~closed
  /\ out' = IF cancelled THEN out ELSE Append(out, MessageStopEvent)
  /\ closed' = TRUE
  /\ UNCHANGED <<impl, fed, nIn, started, sentStop, chunkCount, buffer,
                 stateMachine, hs, cc, wire, legacy, cancelled,
                 readsAfterCancel>>
  /\ UNCHANGED handlerVars
  /\ UNCHANGED concurrentVars
  /\ UNCHANGED converterVars

\* The client cancels the response body (the ReadableStream handleStream
\* built has no cancel callback: nothing in handleStream runs).
\* readsAfterCancel counts the parts read from the upstream since then.
ClientCancel ==
  /\ impl = "handleStream"
  /\ ~closed
  /\ ~cancelled
  /\ cancelled' = TRUE
  /\ UNCHANGED <<impl, out, fed, nIn, closed, started, sentStop, chunkCount,
                 buffer, stateMachine, hs, cc, wire, legacy, readsAfterCancel>>
  /\ UNCHANGED handlerVars
  /\ UNCHANGED concurrentVars
  /\ UNCHANGED converterVars

-----------------------------------------------------------------------------
(* ChunkComparator.  k is [cc |-> the comparator's fields, out |-> queue]. *)
(* Every tool_calls array of Chunks is non-empty, so activeToolIndex is    *)
(* defined whenever hasToolCalls holds.                                    *)

ChunkContent(hasContent, content, hasToolCalls, activeToolIndex, toolId, toolName, toolArgs) ==
  [hasContent |-> hasContent, content |-> content,
   hasToolCalls |-> hasToolCalls, activeToolIndex |-> activeToolIndex,
   toolId |-> toolId, toolName |-> toolName, toolArgs |-> toolArgs]

EmptyChunkContent == ChunkContent(FALSE, <<>>, FALSE, NoIndex, "null", "null", <<>>)

ChunkComparatorInit ==
  [hasPrevious |-> FALSE, previousChunk |-> EmptyChunkContent,
   toolCallState |-> [i \in {} |-> NoToolCallState],
   activeBlockType |-> "null", activeToolIndex |-> NoIndex]

extractChunkContent(k, chunk) ==
  IF ~chunk.hasDelta THEN [k |-> k, current |-> EmptyChunkContent]
  ELSE IF chunk.hasToolCalls /\ chunk.tool_calls # <<>>
  THEN LET toolCall == chunk.tool_calls[1]
           idx  == ToolIdx(toolCall)
           prev == IF idx \in DOMAIN k.cc.toolCallState
                   THEN k.cc.toolCallState[idx] ELSE NoToolCallState
       IN  [k |-> [k EXCEPT !.cc.toolCallState =
                      MapSet(@, idx, [id   |-> Coalesce(toolCall.id, prev.id),
                                      name |-> Coalesce(toolCall.name, prev.name),
                                      args |-> prev.args \o toolCall.arguments])],
            current |-> ChunkContent(chunk.content # <<>>, chunk.content, TRUE,
                                     idx, toolCall.id, toolCall.name,
                                     toolCall.arguments)]
  ELSE [k |-> k,
        current |-> ChunkContent(chunk.content # <<>>, chunk.content,
                                 chunk.hasToolCalls, NoIndex, "null", "null", <<>>)]

emitToolCallStart(k, current) ==
  LET blockIndex == current.activeToolIndex + 1
      toolState  == IF current.activeToolIndex \in DOMAIN k.cc.toolCallState
                    THEN k.cc.toolCallState[current.activeToolIndex]
                    ELSE NoToolCallState
      id   == IF current.toolId # "null" THEN current.toolId
              ELSE IF toolState.id # "null" THEN toolState.id
              ELSE SynthId(current.activeToolIndex)
      name == IF current.toolName # "null" THEN current.toolName
              ELSE IF toolState.name # "null" THEN toolState.name
              ELSE "function"
  IN  Enqueue(k, ToolBlockStart(blockIndex, id, name))

emitToolCallDelta(k, current) ==
  Enqueue(k, InputJsonDelta(current.activeToolIndex + 1, current.toolArgs))

\* emitToolCallStart, the delta when the chunk carries arguments, and the
\* switch of the active block to the chunk's tool.
StartToolBlock(k, current) ==
  LET k1 == emitToolCallStart(k, current)
      k2 == IF current.toolArgs # <<>> THEN emitToolCallDelta(k1, current) ELSE k1
  IN  [k2 EXCEPT !.cc.activeBlockType = "tool",
                 !.cc.activeToolIndex = current.activeToolIndex]

\* content_block_start(0, text), its first delta, and the switch to text.
StartTextBlock(k, current) ==
  [Enqueue(Enqueue(k, TextBlockStart(0)), TextDelta(0, current.content))
     EXCEPT !.cc.activeBlockType = "text", !.cc.activeToolIndex = NoIndex]

handleFirstChunk(k, current) ==
  IF current.hasContent THEN StartTextBlock(k, current)
  ELSE IF current.hasToolCalls THEN StartToolBlock(k, current)
  ELSE k

handleChunkTransition(k, previous, current) ==
  IF previous.hasContent /\ current.hasContent
  THEN Enqueue(k, TextDelta(0, current.content))
  ELSE IF previous.hasContent /\ current.hasToolCalls
  THEN StartToolBlock(Enqueue(k, BlockStop(0)), current)
  ELSE IF previous.hasToolCalls /\ current.hasToolCalls
  THEN IF previous.activeToolIndex = current.activeToolIndex
       THEN IF current.toolArgs # <<>> THEN emitToolCallDelta(k, current) ELSE k
       ELSE StartToolBlock(
              Enqueue(k, BlockStop(previous.activeToolIndex + 1)), current)
  ELSE IF previous.hasToolCalls /\ current.hasContent
  THEN StartTextBlock(
         Enqueue(k, BlockStop(previous.activeToolIndex + 1)), current)
  ELSE IF ~previous.hasContent /\ ~previous.hasToolCalls /\ current.hasContent
  THEN StartTextBlock(k, current)
  ELSE IF ~previous.hasContent /\ ~previous.hasToolCalls /\ current.hasToolCalls
  THEN StartToolBlock(k, current)
  ELSE k

ccProcessChunk(k, chunk) ==
  LET e  == extractChunkContent(k, chunk)
      k1 == IF ~k.cc.hasPrevious
            THEN handleFirstChunk(e.k, e.current)
            ELSE handleChunkTransition(e.k, k.cc.previousChunk, e.current)
  IN  [k1 EXCEPT !.cc.hasPrevious = TRUE, !.cc.previousChunk = e.current]

ccFinalize(k) ==
  LET k1 == IF k.cc.activeBlockType = "text"
            THEN Enqueue(k, BlockStop(0))
            ELSE IF k.cc.activeBlockType = "tool" /\ k.cc.activeToolIndex # NoIndex
                 THEN Enqueue(k, BlockStop(k.cc.activeToolIndex + 1))
                 ELSE k
  IN  [k1 EXCEPT !.cc.activeBlockType = "null", !.cc.activeToolIndex = NoIndex]

\* ChunkComparator.processChunk(chunk, controller)
ComparatorProcessChunk(chunk) ==
  /\ impl = "comparator"
  /\ ~closed
  /\ nIn < MaxInputs
  /\ LET k == ccProcessChunk([cc |-> cc, out |-> out], chunk)
     IN  cc' = k.cc /\ out' = k.out
  /\ fed' = Append(fed, chunk)
  /\ nIn' = nIn + 1
  /\ UNCHANGED <<impl, closed, started, sentStop, chunkCount, buffer,
                 stateMachine, hs, wire, legacy, cancelled,
                 readsAfterCancel>>
  /\ UNCHANGED handlerVars
  /\ UNCHANGED concurrentVars
  /\ UNCHANGED converterVars

\* ChunkComparator.finalize(controller), called once the chunks are through.
ComparatorFinalize ==
  /\ impl = "comparator"
  /\ ~closed
  /\ LET k == ccFinalize([cc |-> cc, out |-> out])
     IN  cc' = k.cc /\ out' = k.out
  /\ closed' = TRUE
  /\ UNCHANGED <<impl, fed, nIn, started, sentStop, chunkCount, buffer,
                 stateMachine, hs, wire, legacy, cancelled,
                 readsAfterCancel>>
  /\ UNCHANGED handlerVars
  /\ UNCHANGED concurrentVars
  /\ UNCHANGED converterVars

-----------------------------------------------------------------------------
(* The earlier createOpenAIToAnthropicStreamTransformer of                 *)
(* converters/streaming.ts: no line buffer, one text block at index 0.     *)
(* g is [legacy |-> the closure variables and whether transform has        *)
(* thrown, out |-> queue, fed |-> payloads read].                          *)

\* The object literal {}: it has no choices.
EmptyObject == Chunk(FALSE, <<>>, FALSE, <<>>, "null")

\* delta.role is carried by the role-only chunk that opens a stream.
HasRole(chunk) == chunk = RoleChunk

\* chunk.choices[0] and choice.delta.role throw a TypeError on a chunk
\* without choices[0].delta.
ConvertThrows(chunk) == ~chunk.hasDelta

convertOpenAIStreamToAnthropic(chunk, isFirst, isLast) ==
  (IF isFirst /\ HasRole(chunk)
   THEN <<MessageStartEvent, TextBlockStart(0)>> ELSE <<>>)
  \o (IF chunk.content # <<>> THEN <<TextDelta(0, chunk.content)>> ELSE <<>>)
  \o (IF isLast \/ chunk.finish_reason # "null"
      THEN <<BlockStop(0), MessageStopEvent>> ELSE <<>>)

LegacyInit == [isFirst |-> TRUE, chunkCount |-> 0, errored |-> FALSE]

\* The body of the for-loop of transform(); a throw outside the try block
\* leaves the loop and errors the stream.
LegacyLine(g, line) ==
  IF g.legacy.errored \/ ~StartsWithData(line) THEN g
  ELSE IF IsDoneLine(line) THEN
    LET seen == [g EXCEPT !.fed = Append(@, DoneMarker)]
    IN  IF ConvertThrows(EmptyObject)
        THEN [seen EXCEPT !.legacy.errored = TRUE]
        ELSE EnqueueAll(seen,
               convertOpenAIStreamToAnthropic(EmptyObject, FALSE, TRUE)
                 \o <<DoneRecord>>)
  ELSE IF ParsesAsChunk(line) THEN
    LET openaiChunk == ParsedChunk(line)
        counted == [g EXCEPT !.legacy.chunkCount = @ + 1,
                             !.fed = Append(@, openaiChunk)]
    IN  IF ConvertThrows(openaiChunk) THEN counted
        ELSE [EnqueueAll(counted,
                convertOpenAIStreamToAnthropic(openaiChunk, g.legacy.isFirst, FALSE))
                EXCEPT !.legacy.isFirst = FALSE]
  ELSE g

RECURSIVE LegacyLines(_, _)
LegacyLines(g, lines) ==
  IF lines = <<>> THEN g
  ELSE LegacyLines(LegacyLine(g, Head(lines)), Tail(lines))

\* transform(chunk, controller): every piece of text.split('\n') is a line.
LegacyTransform(bytes) ==
  /\ impl = "legacy"
  /\ ~closed
  /\ nIn < MaxInputs
  /\ LET g == LegacyLines([legacy |-> legacy, out |-> out, fed |-> fed],
                          SplitLines(Decode(bytes), <<>>))
     IN  /\ legacy' = g.legacy
         /\ out' = g.out
         /\ fed' = g.fed
         /\ closed' = g.legacy.errored
  /\ nIn' = nIn + 1
  /\ wire' = wire \o bytes
  /\ UNCHANGED <<impl, started, sentStop, chunkCount, buffer, stateMachine,
                 hs, cc, cancelled,
                 readsAfterCancel>>
  /\ UNCHANGED handlerVars
  /\ UNCHANGED concurrentVars
  /\ UNCHANGED converterVars

\* The upstream body has ended; the transformer has no flush().
LegacyClose ==
  /\ impl = "legacy"
  /\ ~closed
  /\ closed' = TRUE
  /\ UNCHANGED <<impl, out, fed, nIn, started, sentStop, chunkCount, buffer,
                 stateMachine, hs, cc, wire, legacy, cancelled,
                 readsAfterCancel>>
  /\ UNCHANGED handlerVars
  /\ UNCHANGED concurrentVars
  /\ UNCHANGED converterVars

-----------------------------------------------------------------------------

Impls == {"transformer", "handleStream", "comparator", "legacy"}

\* No call of handleMessagesProxy is under way.
HandlerIdle ==
  /\ pc = "idle"
  /\ request = [body |-> "none", stream |-> FALSE]
  /\ upstream = [kind |-> "none", status |-> 0, hasBody |-> FALSE, bodyOk |-> FALSE]
  /\ upstreamCalls = 0
  /\ response = [status |-> 0, body |-> "none"]

-----------------------------------------------------------------------------
(* The request and response converters (converters/messages).              *)
(* A text is a sequence of letters; "\n" is the line feed.  A message's    *)
(* content is either one string (form "string", texts = <<the string>>)    *)
(* or an array of text blocks (form "blocks", texts = the blocks' texts).  *)
(* cacheAt names the one place of the request that carries a              *)
(* cache_control directive, if any.                                        *)

\* Number of messages of one request.
MaxMessages == 2

\* Number of content blocks of one message of a request with tool blocks.
MaxParts == 2

\* Math.min(anthropicRequest.max_tokens, 8192)
MaxTokensCap == 8192

Min(a, b) == IF a < b THEN a ELSE b

\* A request that passes max_tokens through as it is.
PassMaxTokens(n) == n

CapMaxTokens(n) == Min(n, MaxTokensCap)

\* An optional field: undefined, or set to v.
Undefined  == [set |-> FALSE, value |-> 0]
Defined(v) == [set |-> TRUE, value |-> v]

Message(role, form, texts) == [role |-> role, form |-> form, texts |-> texts]

TextBlockLists ==
  { <<>>, << <<>> >>, << <<"a">> >>, << <<"a">>, <<>> >>, << <<"a">>, <<"b">> >>,
    << <<"a", " ">> >>, << <<" ", "a">>, <<"b", " ">> >> }

IncomingMessages ==
  { Message(role, "string", <<t>>) : role \in {"user", "assistant"}, t \in {<<>>, <<"a">>} }
  \cup { Message(role, "blocks", ts) : role \in {"user", "assistant"}, ts \in TextBlockLists }

MessageLists == UNION { [1..n -> IncomingMessages] : n \in 1..MaxMessages }

CacheLocations == {"none", "system_block", "message", "tool", "content_block"}

AnthropicRequest(model, max_tokens, system, cacheAt, messages) ==
  [model |-> model, max_tokens |-> max_tokens, system |-> system,
   cacheAt |-> cacheAt, messages |-> messages,
   temperature |-> Undefined, top_p |-> Undefined]

\* temperature and top_p, in tenths; both are optional.
Temperatures == {Undefined, Defined(0), Defined(6), Defined(10)}
TopPs        == {Undefined, Defined(9), Defined(10)}

WithSampling(r, t, p) == [r EXCEPT !.temperature = t, !.top_p = p]

Hello == Message("user", "string", << <<"a">> >>)

HelloBlocks == Message("user", "blocks", << <<"a">> >>)

\* Only a system prompt, or a message content, given as an array of blocks
\* can carry a directive on a block.
WellFormedRequest(r) ==
  /\ r.cacheAt = "system_block" => r.system = "blocks"
  /\ r.cacheAt = "content_block" => \E i \in DOMAIN r.messages : r.messages[i] = HelloBlocks

AnthropicRequests ==
  { r \in { AnthropicRequest(model, n, system, cacheAt, <<m>>) :
              model \in {"claude-3-5-sonnet", "deepseek-chat"},
              n \in {0, 1, 8191, 8192, 8193, 10000},
              system \in {"absent", "string", "blocks"},
              cacheAt \in CacheLocations,
              m \in {Hello, HelloBlocks} } : WellFormedRequest(r) }
  \cup { AnthropicRequest("claude-3-5-sonnet", 1024, system, "none", ms) :
           system \in {"absent", "string"}, ms \in MessageLists }
  \cup { WithSampling(AnthropicRequest("claude-3-5-sonnet", 1024, "absent", "none", <<Hello>>), t, p) :
           t \in Temperatures, p \in TopPs }

\* What the request schema accepts: max_tokens is z.number().int().min(1).
SchemaAccepts(r) == r.max_tokens >= 1

Configs == [targetModel : {"deepseek-chat", "gpt-4o"}]

\* Array.prototype.join('\n')
RECURSIVE JoinLines(_)
JoinLines(ts) ==
  IF ts = <<>> THEN <<>>
  ELSE IF Len(ts) = 1 THEN ts[1]
  ELSE ts[1] \o <<"\n">> \o JoinLines(Tail(ts))

OpenAIMessage(role, content) == [role |-> role, content |-> content]

\* A message content is a string or an array of content parts.
StringContent(t) == [form |-> "string", text |-> t, parts |-> <<>>]
PartsContent(ts) == [form |-> "parts", text |-> <<>>, parts |-> ts]

Whitespace == {" ", "\n"}

\* String.prototype.trim()
RECURSIVE Trim(_)
Trim(t) ==
  IF t = <<>> THEN <<>>
  ELSE IF Head(t) \in Whitespace THEN Trim(Tail(t))
  ELSE IF t[Len(t)] \in Whitespace THEN Trim(SubSeq(t, 1, Len(t) - 1))
  ELSE t

\* convertAnthropicContentToOpenAI(regularBlocks): converters/messages.ts
\* joins the texts with a line feed; converters/messages/requests.ts builds
\* the array of parts and returns the text itself when there is one part.
convertAnthropicContentToOpenAI(conv, texts) ==
  IF conv = "convertAnthropicToOpenAI" THEN StringContent(JoinLines(texts))
  ELSE IF Len(texts) = 1 THEN StringContent(texts[1])
  ELSE PartsContent(texts)

\* openaiMessage.content is truthy: an array, or a string that is not empty.
Truthy(content) == content.form = "parts" \/ content.text # <<>>

\* The body of the loop over anthropicRequest.messages: the OpenAI messages
\* pushed for one incoming message.
ConvertMessage(conv, message) ==
  IF message.form = "string"
  THEN <<OpenAIMessage(message.role, StringContent(message.texts[1]))>>
  ELSE LET textBlocks == message.texts
           joined  == IF textBlocks # <<>>
                      THEN StringContent(Trim(JoinLines(textBlocks)))
                      ELSE StringContent(<<>>)
           content == IF textBlocks # <<>>
                      THEN convertAnthropicContentToOpenAI(conv, textBlocks)
                      ELSE joined
       IN  IF Truthy(content)
           THEN <<OpenAIMessage(message.role, content)>>
           ELSE <<>>

RECURSIVE ConvertMessages(_, _)
ConvertMessages(conv, ms) ==
  IF ms = <<>> THEN <<>>
  ELSE ConvertMessage(conv, Head(ms)) \o ConvertMessages(conv, Tail(ms))

Converters == {"convertAnthropicToOpenAI", "anthropicToOpenAI"}

\* convertAnthropicToOpenAI (converters/messages.ts) and anthropicToOpenAI
\* (converters/messages/requests.ts) differ in the model they send.
convertAnthropicToOpenAI(conv, cfg, r) ==
  [model |-> IF conv = "convertAnthropicToOpenAI" THEN "deepseek-chat" ELSE cfg.targetModel,
   messages |-> (IF r.system # "absent" THEN <<OpenAIMessage("system", StringContent(<<"s">>))>> ELSE <<>>)
                \o ConvertMessages(conv, r.messages),
   max_tokens |-> IF r.max_tokens # 0 THEN Defined(CapMaxTokens(r.max_tokens)) ELSE Undefined,
   temperature |-> IF r.temperature.set THEN Defined(r.temperature.value) ELSE Undefined,
   top_p |-> IF r.top_p.set THEN Defined(r.top_p.value) ELSE Undefined]

\* buildTargetHeaders / processCacheControl: the names of the headers set.
buildTargetHeaders(r) ==
  LET inSystem   == r.system = "blocks" /\ r.cacheAt = "system_block"
      inMessages == r.cacheAt = "message"
      inTools    == r.cacheAt = "tool"
  IN  {"Content-Type"}
      \cup (IF inSystem \/ inMessages \/ inTools THEN {"anthropic-beta"} ELSE {})

\* An upstream chat completion: message.content (null when hasContent is
\* FALSE) and message.tool_calls (absent when hasToolCalls is FALSE);
\* argsOk tells whether function.arguments is valid JSON.
Reply(hasContent, content, hasToolCalls, tool_calls) ==
  [hasContent |-> hasContent, content |-> content,
   hasToolCalls |-> hasToolCalls, tool_calls |-> tool_calls]

ReplyToolCall(id, name, argsOk) == [id |-> id, name |-> name, argsOk |-> argsOk]

GoodCall == ReplyToolCall("t0", "f", TRUE)
BadCall  == ReplyToolCall("t1", "g", FALSE)

Replies ==
  { Reply(FALSE, <<>>, h, tcs) :
      h \in {FALSE}, tcs \in {<<>>} }
  \cup { Reply(TRUE, t, FALSE, <<>>) : t \in {<<>>, <<" ">>, <<"a">>} }
  \cup { Reply(hc, t, TRUE, tcs) :
           hc \in {TRUE}, t \in {<<>>, <<" ">>, <<"a">>},
           tcs \in {<<>>, <<GoodCall>>, <<BadCall>>, <<GoodCall, BadCall>>} }
  \cup { Reply(FALSE, <<>>, TRUE, tcs) :
           tcs \in {<<>>, <<GoodCall>>, <<BadCall>>} }

NoReply == Reply(FALSE, <<>>, FALSE, <<>>)

ResponseTextBlock(t) == [type |-> "text", text |-> t, id |-> "null", name |-> "null"]
ResponseToolUse(tc)  == [type |-> "tool_use", text |-> <<>>, id |-> tc.id, name |-> tc.name]

\* content.trim() is not the empty string
TrimsToText(t) == \E i \in DOMAIN t : t[i] # " "

\* JSON.parse(toolCall.function.arguments) throws a SyntaxError
ResponseThrows(reply) ==
  reply.hasToolCalls /\ \E i \in DOMAIN reply.tool_calls : ~reply.tool_calls[i].argsOk

\* A converter that returns the blocks it produced, were there none.
NoFallback(content) == content

\* if (content.length === 0) content.push({ type: 'text', text: '' })
EmptyContentFallback(content) ==
  IF Len(content) = 0 THEN <<ResponseTextBlock(<<>>)>> ELSE content

\* convertOpenAIResponseToAnthropic / openAIToAnthropic: the content of the
\* Anthropic message, when no JSON.parse throws.
convertOpenAIResponseToAnthropic(reply) ==
  LET text  == IF reply.hasContent /\ reply.content # <<>> /\ TrimsToText(reply.content)
               THEN <<ResponseTextBlock(reply.content)>>
               ELSE <<>>
      tools == IF reply.hasToolCalls
               THEN [i \in DOMAIN reply.tool_calls |-> ResponseToolUse(reply.tool_calls[i])]
               ELSE <<>>
  IN  [content |-> EmptyContentFallback(text \o tools)]

NoResponse == [content |-> <<>>]

-----------------------------------------------------------------------------
(* anthropicRequestToCallOptions (converters/models.ts) and the handler    *)
(* that sends its result to the AI SDK model.                              *)

ToolIds == {"t0", "t1"}

\* Content blocks of a request message.
TextPart == [type |-> "text", id |-> "null", name |-> "null", is_error |-> FALSE, form |-> "string"]

ImagePart == [type |-> "image", id |-> "null", name |-> "null", is_error |-> FALSE, form |-> "string"]

ToolUsePart(id, name) == [type |-> "tool_use", id |-> id, name |-> name, is_error |-> FALSE, form |-> "string"]

\* id is the block's tool_use_id, form the type of its content.
ToolResultPart(id, is_error, form) == [type |-> "tool_result", id |-> id, name |-> "null", is_error |-> is_error, form |-> form]

RequestParts ==
  { TextPart, ImagePart, ToolUsePart("t0", "f"),
    ToolResultPart("t0", FALSE, "string"), ToolResultPart("t1", FALSE, "blocks"),
    ToolResultPart("t0", TRUE, "blocks") }

PartLists == UNION { [1..n -> RequestParts] : n \in 0..MaxParts }

AiSdkMessage(role, form, parts) == [role |-> role, form |-> form, parts |-> parts]

AiSdkMessages ==
  { AiSdkMessage(role, "string", <<TextPart>>) : role \in {"user", "assistant"} }
  \cup { AiSdkMessage(role, "blocks", ps) : role \in {"user", "assistant"}, ps \in PartLists }

AiSdkMessageLists == UNION { [1..n -> AiSdkMessages] : n \in 1..MaxMessages }

AiSdkRequests ==
  { AnthropicRequest("claude-3-5-sonnet", 1024, "absent", "none", ms) : ms \in AiSdkMessageLists }
  \cup { WithSampling(AnthropicRequest("claude-3-5-sonnet", n, system, "none",
                                       <<AiSdkMessage("user", "string", <<TextPart>>)>>), t, p) :
           n \in {1024, 10000}, system \in {"absent", "string"},
           t \in Temperatures, p \in TopPs }

\* A part of a model message.
ModelPart(type, toolCallId, toolName, output) ==
  [type |-> type, toolCallId |-> toolCallId, toolName |-> toolName, output |-> output]

ModelMessage(role, part) == [role |-> role, content |-> part]

convertTextPart(part) == ModelPart("text", "null", "null", "null")

convertToolUsePart(part) == ModelPart("tool-call", part.id, part.name, "null")

\* The part converted, or the throw.
Thrown == [threw |-> TRUE, part |-> ModelPart("none", "null", "null", "null")]

Returned(part) == [threw |-> FALSE, part |-> part]

\* output of a tool result: error-text, text or content.
ToolResultOutput(part) ==
  IF part.is_error THEN "error-text"
  ELSE IF part.form = "string" THEN "text" ELSE "content"

\* A conversion that does not ask for the tool's name.
convertToolResultPartUnchecked(part, toolName) ==
  IF part.is_error /\ part.form # "string" THEN Thrown
  ELSE Returned(ModelPart("tool-result", part.id, toolName, ToolResultOutput(part)))

convertToolResultPart(part, toolName) ==
  IF toolName = "undefined" THEN Thrown
  ELSE IF part.is_error /\ part.form # "string" THEN Thrown
  ELSE Returned(ModelPart("tool-result", part.id, toolName, ToolResultOutput(part)))

\* new Map<string, string>(): get() of an id never set is undefined.
EmptyToolNameMap == [id \in ToolIds |-> "undefined"]

ConvertMessagesStart ==
  [threw |-> FALSE, modelMessages |-> <<>>, toolNameMap |-> EmptyToolNameMap]

Push(m, role, part) == [m EXCEPT !.modelMessages = Append(@, ModelMessage(role, part))]

\* The body of `for (const part of message.content)`.
ConvertPart(m, role, part) ==
  IF m.threw THEN m
  ELSE IF part.type = "text" THEN Push(m, role, convertTextPart(part))
  ELSE IF part.type = "tool_use" /\ role = "assistant"
  THEN [Push(m, role, convertToolUsePart(part)) EXCEPT !.toolNameMap[part.id] = part.name]
  ELSE IF part.type = "tool_result"
  THEN LET converted == convertToolResultPart(part, m.toolNameMap[part.id])
       IN  IF converted.threw THEN [m EXCEPT !.threw = TRUE]
           ELSE Push(m, IF role = "user" THEN "tool" ELSE role, converted.part)
  ELSE [m EXCEPT !.threw = TRUE]

RECURSIVE ConvertParts(_, _, _)
ConvertParts(m, role, parts) ==
  IF parts = <<>> THEN m
  ELSE ConvertParts(ConvertPart(m, role, Head(parts)), role, Tail(parts))

\* convertMessages(messages): one model message per content block.
RECURSIVE convertMessages(_, _)
convertMessages(m, messages) ==
  IF messages = <<>> THEN m
  ELSE convertMessages(ConvertParts(m, Head(messages).role, Head(messages).parts),
                       Tail(messages))

NoCallOptions ==
  [threw |-> FALSE, prompt |-> <<>>, maxOutputTokens |-> 0,
   temperature |-> Undefined, topP |-> Undefined]

anthropicRequestToCallOptions(r) ==
  LET m == convertMessages(ConvertMessagesStart, r.messages)
      system == IF r.system # "absent"
                THEN <<ModelMessage("system", convertTextPart(TextPart))>> ELSE <<>>
  IN  IF m.threw THEN [NoCallOptions EXCEPT !.threw = TRUE]
      ELSE [threw |-> FALSE,
            prompt |-> system \o m.modelMessages,
            maxOutputTokens |-> Min(r.max_tokens, MaxTokensCap),
            temperature |-> r.temperature,
            topP |-> r.top_p]

\* callOptions.temperature = 0.6; callOptions.topP = 1;
GLMSampling(co) == [co EXCEPT !.temperature = Defined(6), !.topP = Defined(10)]

NoOpenAIRequest ==
  [model |-> "none", messages |-> <<>>, max_tokens |-> Undefined,
   temperature |-> Undefined, top_p |-> Undefined]

\* No conversion is in progress.
ConverterIdle ==
  /\ converter = "none"
  /\ config = [targetModel |-> "none"]
  /\ anthropicRequest = AnthropicRequest("none", 0, "absent", "none", <<>>)
  /\ openaiRequest = NoOpenAIRequest
  /\ targetHeaders = {}
  /\ openaiResponse = NoReply
  /\ anthropicResponse = NoResponse
  /\ callOptions = NoCallOptions

\* One request's closure state, the writes it has received, and whether its
\* upstream body has ended.
StreamStart ==
  [state |-> [c |-> TransformerStart, buffer |-> <<>>],
   writes |-> <<>>, closed |-> FALSE]

StreamIds == {1, 2}

\* No concurrent request has acted.
ConcurrentIdle ==
  /\ streams = [s \in StreamIds |-> StreamStart]
  /\ lastActed = 0
  /\ turns = 0

Init ==
  /\ HandlerIdle
  /\ ConcurrentIdle
  /\ ConverterIdle
  /\ impl \in Impls
  /\ out = <<>>
  /\ fed = <<>>
  /\ nIn = 0
  /\ closed = FALSE
  /\ started = FALSE
  /\ sentStop = FALSE
  /\ chunkCount = 0
  /\ buffer = <<>>
  /\ stateMachine = StreamStateMachineInit
  /\ hs = HandleStreamInit
  /\ cc = ChunkComparatorInit
  /\ wire = <<>>
  /\ legacy = LegacyInit
  /\ cancelled = FALSE
  /\ readsAfterCancel = 0

Next ==
  \/ \E bytes \in Writes : Transform(bytes)
  \/ Flush
  \/ \E value \in Parts : HandlePart(value)
  \/ HandleStreamDone
  \/ \E chunk \in Chunks : ComparatorProcessChunk(chunk)
  \/ ComparatorFinalize
  \/ \E bytes \in Writes : LegacyTransform(bytes)
  \/ LegacyClose

Spec == Init /\ [][Next]_vars

\* The streams of handleStream with a client that may cancel the response.
InitCancel == Init /\ impl = "handleStream"

NextCancel ==
  \/ \E value \in Parts : HandlePart(value)
  \/ HandleStreamDone
  \/ ClientCancel

CancelSpec == InitCancel /\ [][NextCancel]_vars

-----------------------------------------------------------------------------
(* The upstream body fails in mid-stream.                                  *)

\* What fed records when the upstream failed instead of delivering.
UpstreamFailure ==
  [kind |-> "failure", hasDelta |-> FALSE, content |-> <<>>,
   hasToolCalls |-> FALSE, tool_calls |-> <<>>, finish_reason |-> "null",
   usage |-> 0]

ReadRejected == SimplePart("read-rejected")

\* The upstream body piped through the transformer errors: pipeThrough
\* aborts the transformer's writable side, which errors its readable side;
\* neither transform() nor flush() is called.
UpstreamErrors ==
  /\ impl = "transformer"
  /\ ~closed
  /\ closed' = TRUE
  /\ fed' = Append(fed, UpstreamFailure)
  /\ UNCHANGED <<impl, out, nIn, started, sentStop, chunkCount, buffer,
                 stateMachine, hs, cc, wire, legacy, cancelled,
                 readsAfterCancel>>
  /\ UNCHANGED handlerVars
  /\ UNCHANGED concurrentVars
  /\ UNCHANGED converterVars

\* await reader.read() rejects in handleStream: the catch block calls
\* controller.error(error).
ReadRejects ==
  /\ impl = "handleStream"
  /\ ~closed
  /\ closed' = TRUE
  /\ fed' = Append(fed, ReadRejected)
  /\ UNCHANGED <<impl, out, nIn, started, sentStop, chunkCount, buffer,
                 stateMachine, hs, cc, wire, legacy, cancelled,
                 readsAfterCancel>>
  /\ UNCHANGED handlerVars
  /\ UNCHANGED concurrentVars
  /\ UNCHANGED converterVars

InitFailure == Init /\ impl \in {"transformer", "handleStream"}

NextFailure ==
  \/ \E bytes \in Writes : Transform(bytes)
  \/ Flush
  \/ \E value \in Parts : HandlePart(value)
  \/ HandleStreamDone
  \/ UpstreamErrors
  \/ ReadRejects

FailureSpec == InitFailure /\ [][NextFailure]_vars

\* The stream transformer alone.
InitTransformer == Init /\ impl = "transformer"

NextTransformer ==
  \/ \E bytes \in Writes : Transform(bytes)
  \/ Flush

TransformerSpec == InitTransformer /\ [][NextTransformer]_vars

-----------------------------------------------------------------------------
(* handleMessagesProxy (handlers/messages): one call, step by step.        *)
(* request.body is what the client sent: "malformed" is not JSON,          *)
(* "invalid" is JSON the request schema rejects, "valid" passes it.        *)
(* upstream is what fetch() came to: "refused" when it rejected (no        *)
(* connection), else the response's status, whether it has a body, and     *)
(* whether that body parses as a chat completion.                          *)

Requests ==
  [body : {"malformed", "invalid", "valid"}, stream : BOOLEAN]

UpstreamStatuses == {200, 400, 401, 404, 429, 500, 503}

UpstreamOutcomes ==
  {[kind |-> "refused", status |-> 0, hasBody |-> FALSE, bodyOk |-> FALSE]}
  \cup [kind : {"response"}, status : UpstreamStatuses,
        hasBody : BOOLEAN, bodyOk : BOOLEAN]

\* Response.ok
Ok(status) == status >= 200 /\ status <= 299

Respond(status, body) ==
  /\ response' = [status |-> status, body |-> body]
  /\ pc' = "done"

\* The outer catch block: HTTP 500 with an api_error envelope.
CatchAll == Respond(500, "api_error")

\* await request.json()
ParseRequestBody ==
  /\ pc = "start"
  /\ IF request.body = "malformed"
     THEN CatchAll
     ELSE pc' = "parsed" /\ UNCHANGED response
  /\ UNCHANGED <<request, upstream, upstreamCalls>>
  /\ UNCHANGED streamVars
  /\ UNCHANGED concurrentVars
  /\ UNCHANGED converterVars

\* A handler that lets a schema-invalid body through to the upstream call.
ValidateRequestLetsInvalidThrough ==
  /\ pc = "parsed"
  /\ pc' = "validated"
  /\ UNCHANGED <<response, request, upstream, upstreamCalls>>
  /\ UNCHANGED streamVars
  /\ UNCHANGED concurrentVars
  /\ UNCHANGED converterVars

\* validateAnthropicMessagesRequest(requestBody); a ZodError is answered
\* with createValidationError(error) and HTTP 400.
ValidateRequest ==
  /\ pc = "parsed"
  /\ IF request.body = "invalid"
     THEN Respond(400, "invalid_request_error")
     ELSE pc' = "validated" /\ UNCHANGED response
  /\ UNCHANGED <<request, upstream, upstreamCalls>>
  /\ UNCHANGED streamVars
  /\ UNCHANGED concurrentVars
  /\ UNCHANGED converterVars

\* await fetch(targetUrl, ...)
FetchUpstream(outcome) ==
  /\ pc = "validated"
  /\ upstreamCalls' = upstreamCalls + 1
  /\ upstream' = outcome
  /\ IF outcome.kind = "refused"
     THEN CatchAll
     ELSE pc' = "fetched" /\ UNCHANGED response
  /\ UNCHANGED request
  /\ UNCHANGED streamVars
  /\ UNCHANGED concurrentVars
  /\ UNCHANGED converterVars

\* The streaming path, the !targetResponse.ok path, and the conversion of
\* the chat completion.
RespondToUpstream ==
  /\ pc = "fetched"
  /\ IF request.stream /\ upstream.hasBody
     THEN Respond(200, "event_stream")
     ELSE IF ~Ok(upstream.status)
     THEN Respond(upstream.status, "upstream_body")
     ELSE IF ~upstream.bodyOk
     THEN CatchAll
     ELSE Respond(200, "anthropic_message")
  /\ UNCHANGED <<request, upstream, upstreamCalls>>
  /\ UNCHANGED streamVars
  /\ UNCHANGED concurrentVars
  /\ UNCHANGED converterVars

InitHandler ==
  /\ impl = "transformer"
  /\ out = <<>>
  /\ fed = <<>>
  /\ nIn = 0
  /\ closed = FALSE
  /\ started = FALSE
  /\ sentStop = FALSE
  /\ chunkCount = 0
  /\ buffer = <<>>
  /\ stateMachine = StreamStateMachineInit
  /\ hs = HandleStreamInit
  /\ cc = ChunkComparatorInit
  /\ wire = <<>>
  /\ legacy = LegacyInit
  /\ cancelled = FALSE
  /\ readsAfterCancel = 0
  /\ pc = "start"
  /\ request \in Requests
  /\ upstream = [kind |-> "none", status |-> 0, hasBody |-> FALSE, bodyOk |-> FALSE]
  /\ upstreamCalls = 0
  /\ response = [status |-> 0, body |-> "none"]
  /\ ConcurrentIdle
  /\ ConverterIdle

NextHandler ==
  \/ ParseRequestBody
  \/ ValidateRequest
  \/ \E outcome \in UpstreamOutcomes : FetchUpstream(outcome)
  \/ RespondToUpstream

HandlerSpec == InitHandler /\ [][NextHandler]_vars

-----------------------------------------------------------------------------
(* Two requests streamed at the same time: every request gets its own      *)
(* transformer from createOpenAIToAnthropicStreamTransformer(), and the     *)
(* runtime runs one transform() or flush() callback at a time, in any      *)
(* order across the two.                                                   *)

ConcurrentWrites ==
  { <<FullLine(TextChunk(<<"a">>)), NL>>,
    <<HeadPiece(TextChunk(<<"a">>))>>,
    <<TailPiece(TextChunk(<<"a">>)), NL>>,
    <<FullLine(ToolChunk(<<ToolCall(0, "t0", "f", <<"x">>)>>)), NL>>,
    <<FullLine(DoneMarker), NL>> }

\* transform(chunk, controller) on the closure state st.
TransformStep(st, bytes) ==
  LET lines == SplitLines(st.buffer \o Decode(bytes), <<>>)
  IN  [c |-> ProcessLines(st.c, SubSeq(lines, 1, Len(lines) - 1)),
       buffer |-> lines[Len(lines)]]

\* flush(controller) on the closure state st.
FlushStep(st) ==
  [st EXCEPT !.c = IF st.buffer # <<>> THEN ProcessLine(@, st.buffer, TRUE) ELSE @]

\* Every request's callbacks work on the state of one module-wide transformer.
SharedClosure(s) == streams[1].state

\* The variables the callbacks of request s close over.
ClosureOf(s) == streams[s].state

\* The acting request, and how often the acting request has changed.
Schedule(s) ==
  /\ lastActed' = s
  /\ turns' = IF lastActed \notin {0, s} /\ turns < 2 THEN turns + 1 ELSE turns

TransformOn(s, bytes) ==
  /\ ~streams[s].closed
  /\ Len(streams[s].writes) < MaxStreamWrites
  /\ streams' = [streams EXCEPT ![s] =
                   [state  |-> TransformStep(ClosureOf(s), bytes),
                    writes |-> Append(@.writes, bytes),
                    closed |-> FALSE]]
  /\ Schedule(s)
  /\ UNCHANGED streamVars
  /\ UNCHANGED handlerVars
  /\ UNCHANGED converterVars

FlushOn(s) ==
  /\ ~streams[s].closed
  /\ streams' = [streams EXCEPT ![s] =
                   [state  |-> FlushStep(ClosureOf(s)),
                    writes |-> @.writes,
                    closed |-> TRUE]]
  /\ Schedule(s)
  /\ UNCHANGED streamVars
  /\ UNCHANGED handlerVars
  /\ UNCHANGED converterVars

InitConcurrent ==
  /\ Init
  /\ impl = "transformer"

NextConcurrent ==
  \/ \E s \in StreamIds, bytes \in ConcurrentWrites : TransformOn(s, bytes)
  \/ \E s \in StreamIds : FlushOn(s)

ConcurrentSpec == InitConcurrent /\ [][NextConcurrent]_vars

-----------------------------------------------------------------------------
(* handleMessagesProxy on a request without stream: validation, request    *)
(* conversion, target headers, the upstream's 200 reply, and the           *)
(* conversion of that reply.                                               *)

\* const openaiRequest = convertAnthropicToOpenAI(anthropicRequest)
ConvertRequest ==
  /\ pc = "validated"
  /\ openaiRequest' = convertAnthropicToOpenAI(converter, config, anthropicRequest)
  /\ pc' = "converted"
  /\ UNCHANGED <<request, upstream, upstreamCalls, response>>
  /\ UNCHANGED <<converter, config, anthropicRequest, targetHeaders,
                 openaiResponse, anthropicResponse,
                 callOptions>>
  /\ UNCHANGED streamVars
  /\ UNCHANGED concurrentVars

\* const targetHeaders = buildTargetHeaders(request, config, anthropicRequest)
BuildTargetHeaders ==
  /\ pc = "converted"
  /\ targetHeaders' = buildTargetHeaders(anthropicRequest)
  /\ pc' = "headers"
  /\ UNCHANGED <<request, upstream, upstreamCalls, response>>
  /\ UNCHANGED <<converter, config, anthropicRequest, openaiRequest,
                 openaiResponse, anthropicResponse,
                 callOptions>>
  /\ UNCHANGED streamVars
  /\ UNCHANGED concurrentVars

\* await fetch(...) answered 200, and await targetResponse.json()
ReceiveReply(reply) ==
  /\ pc = "headers"
  /\ upstreamCalls' = upstreamCalls + 1
  /\ upstream' = [kind |-> "response", status |-> 200, hasBody |-> TRUE, bodyOk |-> TRUE]
  /\ openaiResponse' = reply
  /\ pc' = "replied"
  /\ UNCHANGED <<request, response>>
  /\ UNCHANGED <<converter, config, anthropicRequest, openaiRequest,
                 targetHeaders, anthropicResponse,
                 callOptions>>
  /\ UNCHANGED streamVars
  /\ UNCHANGED concurrentVars

\* convertOpenAIResponseToAnthropic(openaiResponse) and the Response built
\* from it; a throw is answered by the catch block.
ConvertReply ==
  /\ pc = "replied"
  /\ IF ResponseThrows(openaiResponse)
     THEN CatchAll /\ UNCHANGED anthropicResponse
     ELSE /\ anthropicResponse' = convertOpenAIResponseToAnthropic(openaiResponse)
          /\ Respond(200, "anthropic_message")
  /\ UNCHANGED <<request, upstream, upstreamCalls>>
  /\ UNCHANGED <<converter, config, anthropicRequest, openaiRequest,
                 targetHeaders, openaiResponse,
                 callOptions>>
  /\ UNCHANGED streamVars
  /\ UNCHANGED concurrentVars

InitConverter ==
  /\ impl = "transformer"
  /\ out = <<>>
  /\ fed = <<>>
  /\ nIn = 0
  /\ closed = FALSE
  /\ started = FALSE
  /\ sentStop = FALSE
  /\ chunkCount = 0
  /\ buffer = <<>>
  /\ stateMachine = StreamStateMachineInit
  /\ hs = HandleStreamInit
  /\ cc = ChunkComparatorInit
  /\ wire = <<>>
  /\ legacy = LegacyInit
  /\ cancelled = FALSE
  /\ readsAfterCancel = 0
  /\ ConcurrentIdle
  /\ converter \in Converters
  /\ config \in Configs
  /\ anthropicRequest \in AnthropicRequests
  /\ openaiRequest = NoOpenAIRequest
  /\ targetHeaders = {}
  /\ openaiResponse = NoReply
  /\ anthropicResponse = NoResponse
  /\ callOptions = NoCallOptions
  /\ pc = "parsed"
  /\ request = [body |-> IF SchemaAccepts(anthropicRequest) THEN "valid" ELSE "invalid",
                stream |-> FALSE]
  /\ upstream = [kind |-> "none", status |-> 0, hasBody |-> FALSE, bodyOk |-> FALSE]
  /\ upstreamCalls = 0
  /\ response = [status |-> 0, body |-> "none"]

NextConverter ==
  \/ ValidateRequest
  \/ ConvertRequest
  \/ BuildTargetHeaders
  \/ \E reply \in Replies : ReceiveReply(reply)
  \/ ConvertReply

ConverterSpec == InitConverter /\ [][NextConverter]_vars

-----------------------------------------------------------------------------
(* The AI SDK path.                                                        *)

\* anthropicRequestToCallOptions(request), called on its own.
AnthropicRequestToCallOptions ==
  /\ pc = "start"
  /\ callOptions' = anthropicRequestToCallOptions(anthropicRequest)
  /\ pc' = "converted"
  /\ UNCHANGED <<request, upstream, upstreamCalls, response>>
  /\ UNCHANGED <<converter, config, anthropicRequest, openaiRequest,
                 targetHeaders, openaiResponse, anthropicResponse>>
  /\ UNCHANGED streamVars
  /\ UNCHANGED concurrentVars

\* handleMessagesAiSdk up to model.doStream / model.doGenerate: the call
\* options are built, the sampling parameters are set, and the options are
\* handed to the model of config.targetModel.
HandleMessagesAiSdk ==
  /\ pc = "start"
  /\ LET converted == anthropicRequestToCallOptions(anthropicRequest)
     IN  IF converted.threw
         THEN /\ callOptions' = converted
              /\ pc' = "threw"
              /\ UNCHANGED upstreamCalls
         ELSE /\ callOptions' = GLMSampling(converted)
              /\ pc' = "sent"
              /\ upstreamCalls' = upstreamCalls + 1
  /\ UNCHANGED <<request, upstream, response>>
  /\ UNCHANGED <<converter, config, anthropicRequest, openaiRequest,
                 targetHeaders, openaiResponse, anthropicResponse>>
  /\ UNCHANGED streamVars
  /\ UNCHANGED concurrentVars

InitAiSdk ==
  /\ impl = "handleStream"
  /\ out = <<>>
  /\ fed = <<>>
  /\ nIn = 0
  /\ closed = FALSE
  /\ started = FALSE
  /\ sentStop = FALSE
  /\ chunkCount = 0
  /\ buffer = <<>>
  /\ stateMachine = StreamStateMachineInit
  /\ hs = HandleStreamInit
  /\ cc = ChunkComparatorInit
  /\ wire = <<>>
  /\ legacy = LegacyInit
  /\ cancelled = FALSE
  /\ readsAfterCancel = 0
  /\ ConcurrentIdle
  /\ converter = "anthropicRequestToCallOptions"
  /\ config \in Configs
  /\ anthropicRequest \in AiSdkRequests
  /\ openaiRequest = NoOpenAIRequest
  /\ targetHeaders = {}
  /\ openaiResponse = NoReply
  /\ anthropicResponse = NoResponse
  /\ callOptions = NoCallOptions
  /\ pc = "start"
  /\ request = [body |-> "valid", stream |-> FALSE]
  /\ upstream = [kind |-> "none", status |-> 0, hasBody |-> FALSE, bodyOk |-> FALSE]
  /\ upstreamCalls = 0
  /\ response = [status |-> 0, body |-> "none"]

NextAiSdk ==
  \/ AnthropicRequestToCallOptions
  \/ HandleMessagesAiSdk

AiSdkSpec == InitAiSdk /\ [][NextAiSdk]_vars

-----------------------------------------------------------------------------
(* Vocabulary of the properties: the emitted event sequence out against    *)
(* the upstream sequence fed.                                              *)

Positions(type) == {p \in DOMAIN out : out[p].type = type}

BlockEventTypes ==
  {"content_block_start", "content_block_delta", "content_block_stop"}

BlockPositions == {p \in DOMAIN out : out[p].type \in BlockEventTypes}

BlockIndices == {out[p].index : p \in BlockPositions}

StartsAt(i) == {p \in Positions("content_block_start") : out[p].index = i}
StopsAt(i)  == {p \in Positions("content_block_stop") : out[p].index = i}

\* The blocks open after the first n events.
OpenAfter(n) ==
  {i \in BlockIndices :
     Cardinality({p \in StartsAt(i) : p <= n})
       > Cardinality({p \in StopsAt(i) : p <= n})}

\* The content_block_start that governs position n: the last start or stop
\* at that index before n, if it is a start.
GoverningStart(n) ==
  {p \in StartsAt(out[n].index) :
     /\ p < n
     /\ \A q \in (p + 1)..(n - 1) :
          ~(q \in StartsAt(out[n].index) \cup StopsAt(out[n].index))}

RECURSIVE Concat(_)
Concat(ss) == IF ss = <<>> THEN <<>> ELSE Head(ss) \o Concat(Tail(ss))

RECURSIVE AllToolCalls(_)
AllToolCalls(chunks) ==
  IF chunks = <<>> THEN <<>>
  ELSE Head(chunks).tool_calls \o AllToolCalls(Tail(chunks))

\* Every tool-call entry of the upstream stream, in arrival order.
ToolEntries == AllToolCalls(fed)

UpstreamToolIndices == {ToolIdx(ToolEntries[p]) : p \in DOMAIN ToolEntries}

EntriesOf(idx) == {p \in DOMAIN ToolEntries : ToolIdx(ToolEntries[p]) = idx}

\* The upstream calls whose name has arrived.
NamedToolIndices ==
  {idx \in UpstreamToolIndices :
     \E p \in EntriesOf(idx) : ToolEntries[p].name # "null"}

FirstWhere(ps) == CHOOSE p \in ps : \A q \in ps : p <= q

UpstreamName(idx) ==
  ToolEntries[FirstWhere({p \in EntriesOf(idx) : ToolEntries[p].name # "null"})].name

UpstreamId(idx) ==
  LET withId == {p \in EntriesOf(idx) : ToolEntries[p].id # "null"}
  IN  IF withId = {} THEN SynthId(idx) ELSE ToolEntries[FirstWhere(withId)].id

\* Shapes of upstream OpenAI streams.
NamedFirst ==
  \A p \in DOMAIN ToolEntries :
     ToolEntries[p].name = "null" =>
       \E q \in 1..(p - 1) : /\ ToolIdx(ToolEntries[q]) = ToolIdx(ToolEntries[p])
                             /\ ToolEntries[q].name # "null"

NothingAfterEnd ==
  \A p \in DOMAIN fed :
     p < Len(fed) => fed[p].kind = "chunk" /\ fed[p].finish_reason = "null"

NoMixedChunk ==
  \A p \in DOMAIN fed : ~(fed[p].content # <<>> /\ fed[p].hasToolCalls)

\* The last chunk of the stream (a [DONE] marker may follow it) carries a
\* finish_reason and is the only one that does.
TerminatesInFinish ==
  LET chunkPos == {p \in DOMAIN fed : fed[p].kind = "chunk"}
  IN  /\ chunkPos # {}
      /\ \A p \in chunkPos :
           fed[p].finish_reason # "null" <=> (\A q \in chunkPos : q <= p)
      /\ \A p \in DOMAIN fed : fed[p].kind = "done" => p = Len(fed)

WellFormedUpstream == NamedFirst /\ NothingAfterEnd /\ NoMixedChunk

TextOut ==
  Concat([n \in DOMAIN out |->
            IF out[n].kind = "text_delta" THEN out[n].text ELSE <<>>])

TextIn == Concat([p \in DOMAIN fed |-> fed[p].content])

\* The partial_json emitted inside the tool_use block of upstream call idx.
ArgsOut(idx) ==
  Concat([n \in DOMAIN out |->
            IF /\ out[n].kind = "input_json_delta"
               /\ \E p \in GoverningStart(n) :
                    /\ out[p].kind = "tool_use"
                    /\ out[p].id \in {UpstreamId(idx), SynthId(idx)}
            THEN out[n].text ELSE <<>>])

ArgsIn(idx) ==
  Concat([p \in DOMAIN ToolEntries |->
            IF ToolIdx(ToolEntries[p]) = idx
            THEN ToolEntries[p].arguments ELSE <<>>])

-----------------------------------------------------------------------------
(* The claims.                                                             *)

\* C1: whatever the upstream delivers, at most one message_start is emitted
\* (a repeated start signal adds none) and every content_block_start,
\* content_block_delta and content_block_stop has a message_start before it.
C1_MessageStartOnceAndFirst ==
  impl \in {"transformer", "handleStream"} =>
    /\ Cardinality(Positions("message_start")) <= 1
    /\ \A p \in BlockPositions : \E q \in Positions("message_start") : q < p

\* C2: when the upstream stream terminates in a finish_reason, the finished
\* output holds exactly one message_stop and it is the last event.
C2_ExactlyOneMessageStopLast ==
  impl = "transformer" /\ closed /\ TerminatesInFinish =>
    /\ Cardinality(Positions("message_stop")) = 1
    /\ out[Len(out)].type = "message_stop"

\* C3: when the upstream stream terminates in a finish part, with or without
\* usage, the finished output holds exactly one message_delta, it carries a
\* stop_reason, and the event right after it is message_stop.
C3_OneMessageDeltaBeforeStop ==
  ( /\ impl = "handleStream" /\ closed /\ fed # <<>>
    /\ fed[1].type = "stream-start"
    /\ \A p \in DOMAIN fed : fed[p].type = "finish" <=> p = Len(fed) ) =>
    /\ Cardinality(Positions("message_delta")) = 1
    /\ \A p \in Positions("message_delta") :
         /\ out[p].stop_reason # "null"
         /\ p < Len(out)
         /\ out[p + 1].type = "message_stop"

\* C4: the events of each block index form content_block_start, then
\* content_block_delta*, then content_block_stop: one start, which comes
\* first, at most one stop, which comes last, and the stop is there once
\* message_stop is out.
C4_BlockEventPattern ==
  impl = "transformer" /\ WellFormedUpstream =>
    \A i \in BlockIndices :
      /\ Cardinality(StartsAt(i)) = 1
      /\ Cardinality(StopsAt(i)) <= 1
      /\ \A p \in BlockPositions :
           out[p].index = i =>
             /\ \A b \in StartsAt(i) : b <= p
             /\ \A e \in StopsAt(i) : p <= e
      /\ Positions("message_stop") # {} => StopsAt(i) # {}

\* C5: at most one content block is open at any time, and every
\* content_block_delta falls inside the open block of its index.
C5_AtMostOneOpenBlock ==
  impl = "transformer" /\ WellFormedUpstream =>
    \A n \in DOMAIN out :
      /\ Cardinality(OpenAfter(n)) <= 1
      /\ out[n].type = "content_block_delta" => out[n].index \in OpenAfter(n)

\* C6: block indices never decrease in emission order, and no
\* content_block_start carries an index that was stopped before.
C6_IndicesMonotoneNeverReused ==
  impl = "transformer" /\ WellFormedUpstream =>
    /\ \A p, q \in BlockPositions : p < q => out[p].index <= out[q].index
    /\ \A p \in Positions("content_block_stop") :
         \A q \in Positions("content_block_start") :
            p < q => out[q].index # out[p].index

\* C7: a text_delta is emitted only while a text block is open at its index,
\* an input_json_delta only while a tool_use block is open at its index.
C7_DeltaInsideMatchingBlock ==
  impl = "transformer" /\ WellFormedUpstream =>
    \A n \in Positions("content_block_delta") :
      \E p \in GoverningStart(n) :
         out[p].kind = (IF out[n].kind = "text_delta" THEN "text" ELSE "tool_use")

\* C8: over the whole stream, each upstream tool call (by upstream index,
\* calls sharing a chunk included) gets exactly one tool_use
\* content_block_start, carrying its name and id.
C8_OneToolUseStartPerCall ==
  impl = "comparator" /\ closed /\ WellFormedUpstream =>
    \A idx \in NamedToolIndices :
      Cardinality({p \in Positions("content_block_start") :
                     /\ out[p].kind = "tool_use"
                     /\ out[p].name = UpstreamName(idx)
                     /\ out[p].id = UpstreamId(idx)}) = 1

\* C9: for each upstream tool call, the partial_json strings emitted in its
\* block, concatenated in emission order, equal the function.arguments
\* fragments received for it, concatenated in arrival order.
C9_ToolArgumentsPreserved ==
  impl = "transformer" /\ closed /\ NothingAfterEnd /\ NoMixedChunk =>
    \A idx \in NamedToolIndices : ArgsOut(idx) = ArgsIn(idx)

\* C10: the text_delta texts, concatenated in emission order, equal the
\* delta.content strings of the upstream, concatenated in arrival order.
C10_TextPreserved ==
  impl = "comparator" /\ NamedFirst => TextOut = TextIn

\* The finish reasons the upstream has reported so far.
FinishReasonsSeen ==
  IF impl = "handleStream"
  THEN {fed[p].finishReason : p \in DOMAIN fed} \ {"null"}
  ELSE {fed[p].finish_reason : p \in DOMAIN fed} \ {"null"}

ToolUseStarts ==
  {p \in Positions("content_block_start") : out[p].kind = "tool_use"}

\* C11: block indices are handed out in first-seen order from 0, one more
\* per opened block, whatever the upstream tool-call index: the k-th
\* content_block_start of the stream carries index k - 1.
C11_IndicesInFirstSeenOrder ==
  impl = "transformer" /\ WellFormedUpstream =>
    \A p \in Positions("content_block_start") :
      out[p].index =
        Cardinality({q \in Positions("content_block_start") : q < p})

\* C12: when the upstream finish reason is "length", the terminal
\* message_delta carries stop_reason max_tokens.
C12_LengthMapsToMaxTokens ==
  impl \in {"transformer", "handleStream"} /\ FinishReasonsSeen = {"length"} =>
    \A p \in Positions("message_delta") : out[p].stop_reason = "max_tokens"

\* C13: when the upstream finish reason is not "length", the terminal
\* stop_reason is tool_use if a tool_use block was opened before it and
\* end_turn if none was.
C13_ToolUseIffToolBlockOpened ==
  impl = "transformer" /\ "length" \notin FinishReasonsSeen =>
    \A p \in Positions("message_delta") :
      out[p].stop_reason =
        (IF \E q \in ToolUseStarts : q < p THEN "tool_use" ELSE "end_turn")

\* What each transformer emits when the whole body arrives in one write.
OneShotTransformer(bytes) ==
  LET lines == SplitLines(Decode(bytes), <<>>)
      c1    == ProcessLines(TransformerStart, SubSeq(lines, 1, Len(lines) - 1))
      rest  == lines[Len(lines)]
  IN  (IF rest # <<>> THEN ProcessLine(c1, rest, TRUE) ELSE c1).out

OneShotLegacy(bytes) ==
  LegacyLines([legacy |-> LegacyInit, out |-> <<>>, fed |-> <<>>],
              SplitLines(Decode(bytes), <<>>)).out

\* C14: however the upstream byte stream was split into writes, the events
\* emitted by the end of the stream are those emitted when the same bytes
\* arrive in a single write.
C14_ChunkBoundariesDoNotMatter ==
  closed /\ impl \in {"transformer", "legacy"} =>
    out = (IF impl = "transformer"
           THEN OneShotTransformer(wire) ELSE OneShotLegacy(wire))

\* C15: the output never holds a data: [DONE] record, and the last record
\* of a finished stream that emitted anything is message_stop.
C15_NoDoneTrailerStopIsLast ==
  impl \in {"transformer", "legacy"} =>
    /\ \A p \in DOMAIN out : out[p] # DoneRecord
    /\ closed /\ out # <<>> => out[Len(out)].type = "message_stop"

\* C16: once the client has cancelled the response stream, no further
\* event is emitted and reading from the upstream stops: at most the read
\* that was pending when the client cancelled still completes.
C16_NothingAfterCancel ==
  [][cancelled => (out' = out /\ (nIn' # nIn => readsAfterCancel = 0))]_vars

-----------------------------------------------------------------------------
(* The handler's error taxonomy.                                           *)

Answered == pc = "done"

Upstream4xx == upstream.kind = "response" /\ upstream.status >= 400 /\ upstream.status <= 499

Upstream5xx == upstream.kind = "response" /\ upstream.status >= 500 /\ upstream.status <= 599

C19_Upstream4xxForwardedUnchanged ==
  Answered /\ Upstream4xx => response = [status |-> upstream.status, body |-> "upstream_body"]

\* C20: when the upstream connection failed or the upstream answered with a
\* 5xx status, the client receives HTTP 502 with an api_error envelope.
C20_UpstreamUnavailableIs502 ==
  Answered /\ (upstream.kind = "refused" \/ Upstream5xx) => response = [status |-> 502, body |-> "api_error"]

-----------------------------------------------------------------------------
(* Concurrent requests.                                                    *)

\* The closure state of one request that received the writes ws alone.
RECURSIVE Alone(_, _)
Alone(st, ws) ==
  IF ws = <<>> THEN st ELSE Alone(TransformStep(st, Head(ws)), Tail(ws))

EmittedAlone(ws, ended) ==
  LET st == Alone(StreamStart.state, ws)
  IN  (IF ended THEN FlushStep(st) ELSE st).c.out

\* C17: whatever the order in which the writes of the two requests arrive,
\* the events emitted for a request are those its own writes produce when
\* it is the only request.
C17_StreamStateIsPrivate ==
  \A s \in StreamIds :
    streams[s].state.c.out = EmittedAlone(streams[s].writes, streams[s].closed)

C17_Witness ==
  /\ turns >= 2
  /\ \A s \in StreamIds : streams[s].closed /\ Len(streams[s].writes) = MaxStreamWrites
  /\ streams[1].writes = <<<<HeadPiece(TextChunk(<<"a">>))>>, <<TailPiece(TextChunk(<<"a">>)), NL>>>>
  /\ streams[1].state.c.out = <<MessageStartEvent, TextBlockStart(0), TextDelta(0, <<"a">>)>>
  /\ streams[2].state.c.out # <<>>
  /\ streams[2].state.c.out # streams[1].state.c.out

-----------------------------------------------------------------------------
(* The request and response converters.                                    *)

\* The request passed validation and has been converted.
Converted ==
  /\ converter \in Converters
  /\ request.body = "valid"
  /\ pc \in {"converted", "headers", "replied", "done"}

HeadersBuilt ==
  /\ converter \in Converters
  /\ request.body = "valid"
  /\ pc \in {"headers", "replied", "done"}

\* C21: the max_tokens sent upstream for a valid request is the smaller of
\* the request's max_tokens and 8192.
C21_MaxTokensCapped ==
  Converted =>
    openaiRequest.max_tokens = Defined(Min(anthropicRequest.max_tokens, 8192))

C21_Witness ==
  /\ Converted
  /\ anthropicRequest.max_tokens = 10000
  /\ openaiRequest.max_tokens = Defined(8192)

\* C22: the model sent upstream is the configured upstream model, whatever
\* model the incoming request names.
C22_ModelFromConfiguration ==
  Converted => openaiRequest.model = config.targetModel

NonSystem(ms) == SelectSeq(ms, LAMBDA m : m.role # "system")

WithoutLineFeeds(t) == SelectSeq(t, LAMBDA ch : ch # "\n")

\* The text a message content carries: the string, or the texts of its parts.
TextOf(content) ==
  IF content.form = "string" THEN content.text ELSE Concat(content.parts)

C24_CacheHeaderIffCacheControl ==
  HeadersBuilt =>
    ("anthropic-beta" \in targetHeaders <=> anthropicRequest.cacheAt # "none")

\* C25: when a tool call of the upstream reply has arguments that are not
\* valid JSON, no Anthropic response is produced and the client receives
\* HTTP 502 with an api_error envelope.
C25_MalformedToolArgumentsIs502 ==
  converter \in Converters /\ Answered /\ ResponseThrows(openaiResponse) =>
    /\ anthropicResponse = NoResponse
    /\ response = [status |-> 502, body |-> "api_error"]

HasNoText(reply) == ~reply.hasContent \/ reply.content = <<>>

HasNoToolCalls(reply) == ~reply.hasToolCalls \/ reply.tool_calls = <<>>

-----------------------------------------------------------------------------
(* Finalization and edge cases of the stream transformer.                  *)

DoneSeen == \E p \in DOMAIN fed : fed[p] = DoneMarker

\* C27: once message_start is out, the stream is finalized (message_delta
\* and message_stop are out) as soon as a chunk with a finish_reason, the
\* [DONE] marker or the end of the upstream stream has been processed.
C27_FinalizedAtFirstTrigger ==
  ( /\ impl = "transformer"
    /\ Positions("message_start") # {}
    /\ closed \/ DoneSeen \/ FinishReasonsSeen # {} ) =>
    /\ Positions("message_delta") # {}
    /\ Positions("message_stop") # {}

\* C28: a chunk processed after a chunk with a finish_reason emits no event
\* and leaves the state machine as it was.
C28_ChunksAfterFinishIgnored ==
  [][ ( /\ impl = "transformer"
        /\ FinishReasonsSeen # {}
        /\ Len(fed') = Len(fed) + 1
        /\ fed'[Len(fed')].kind = "chunk" ) =>
      (out' = out /\ stateMachine' = stateMachine) ]_vars

MixedChunk ==
  Chunk(TRUE, <<"a">>, TRUE, <<ToolCall(0, "t0", "f", <<"x">>)>>, "null")

\* C29: when the first chunk with tool calls also carries text, the output
\* holds the text delta, then the stop of the text block, then the start
\* of the tool_use block of the chunk's tool call.
C29_MixedChunkTextThenTool ==
  ( /\ impl \in {"transformer", "comparator"}
    /\ closed
    /\ \E k \in DOMAIN fed :
         fed[k] = MixedChunk /\ \A j \in 1..(k - 1) : ~fed[j].hasToolCalls ) =>
    \E q, r, p \in DOMAIN out :
      /\ q < r /\ r < p
      /\ out[q].type = "content_block_delta" /\ out[q].kind = "text_delta"
      /\ out[r].type = "content_block_stop" /\ out[r].index = out[q].index
      /\ out[p].type = "content_block_start" /\ out[p].kind = "tool_use"
      /\ out[p].name = "f"

NamelessFragment == ToolChunk(<<ToolCall(0, "null", "null", <<"y">>)>>)

NamedFragment == ToolChunk(<<ToolCall(0, "t0", "f", <<"x">>)>>)

\* C30: a stream that begins with an argument fragment of a tool call whose
\* name is not known yet opens no tool_use block and emits no
\* input_json_delta for it; when the chunk with the name follows, the
\* block is started and its first delta carries the buffered fragment and
\* the new one together.
C30_FragmentsBeforeNameReplayed ==
  ( /\ impl \in {"transformer", "comparator"}
    /\ (impl = "comparator" => closed)
    /\ fed # <<>>
    /\ fed[1] = NamelessFragment ) =>
    /\ Len(fed) = 1 =>
         \A p \in DOMAIN out :
           out[p].kind \notin {"tool_use", "input_json_delta"}
    /\ Len(fed) >= 2 /\ fed[2] = NamedFragment =>
         \E p \in ToolUseStarts :
           /\ p < Len(out)
           /\ out[p + 1] = InputJsonDelta(out[p].index, <<"y", "x">>)

-----------------------------------------------------------------------------
(* Upstream failures, usage, and the start of the message.                 *)

FailureStep ==
  /\ impl \in {"transformer", "handleStream"}
  /\ Len(fed') = Len(fed) + 1
  /\ fed'[Len(fed')] = (IF impl = "transformer" THEN UpstreamFailure ELSE ReadRejected)

\* C31: when the upstream fails after message_start and before
\* message_stop, the failure is answered with a finalization: the output
\* then ends with message_delta (stop_reason end_turn) and message_stop.
C31_FailureStillFinalizes ==
  [][ ( /\ FailureStep
        /\ Positions("message_start") # {}
        /\ Positions("message_stop") = {} ) =>
      ( /\ Len(out') >= Len(out) + 2
        /\ out'[Len(out')] = MessageStopEvent
        /\ out'[Len(out') - 1] = MessageDelta("end_turn") ) ]_vars

\* The output tokens of the last usage tally the upstream delivered.
RECURSIVE LastUsage(_)
LastUsage(n) ==
  IF n = 0 THEN 0
  ELSE IF impl = "handleStream"
       THEN IF fed[n].type = "finish" /\ fed[n].hasUsage
            THEN fed[n].outputTokens ELSE LastUsage(n - 1)
       ELSE IF fed[n].usage # 0 THEN fed[n].usage ELSE LastUsage(n - 1)

\* C32: the usage of the last message_delta of a finished stream is the
\* last usage tally received from the upstream, zero if there was none.
C32_TerminalUsageIsLastTally ==
  impl \in {"transformer", "handleStream"} /\ closed /\ Positions("message_stop") # {} =>
    \A p \in Positions("message_delta") :
      (\A q \in Positions("message_delta") : q <= p) =>
        out[p].usage = LastUsage(Len(fed))

\* C33: once a first chunk has been processed, the output begins with
\* message_start, whether or not that chunk carries delta.role.
C33_MessageStartOnFirstChunk ==
  impl \in {"transformer", "legacy"} /\ fed # <<>> /\ fed[1].kind = "chunk" =>
    out # <<>> /\ out[1].type = "message_start"

\* A data line that is neither [DONE] nor the JSON of a chunk.
Malformed(line) == StartsWithData(line) /\ ~IsDoneLine(line) /\ ~ParsesAsChunk(line)

\* The lines the write of this step completed.
LinesCompleted ==
  LET lines == SplitLines(buffer \o Decode(SubSeq(wire', Len(wire) + 1, Len(wire'))), <<>>)
  IN  SubSeq(lines, 1, Len(lines) - 1)

\* C34: a write that completes only data lines that do not parse emits
\* nothing, leaves the transformer's state as it was and the stream open,
\* so that the lines that follow are processed as if it had not arrived.
C34_MalformedLineSkipped ==
  [][ ( /\ impl = "transformer"
        /\ nIn' = nIn + 1
        /\ LinesCompleted # <<>>
        /\ \A i \in DOMAIN LinesCompleted : Malformed(LinesCompleted[i]) ) =>
      ( /\ out' = out
        /\ stateMachine' = stateMachine
        /\ started' = started
        /\ sentStop' = sentStop
        /\ chunkCount' = chunkCount
        /\ buffer' = <<>>
        /\ closed' = closed ) ]_vars

C34_Witness ==
  /\ impl = "transformer"
  /\ wire = <<FullLine(EmptyData), NL,
              HeadPiece(TextChunk(<<"a">>)), FullLine(RoleChunk), NL,
              FullLine(TextChunk(<<"a">>)), NL>>
  /\ out = <<MessageStartEvent, TextBlockStart(0), TextDelta(0, <<"a">>)>>

\* C35: every message_delta and every message_stop of the output comes
\* after a message_start.
C35_NoTerminalWithoutStart ==
  impl \in {"transformer", "handleStream"} =>
    \A p \in Positions("message_delta") \cup Positions("message_stop") :
      \E q \in Positions("message_start") : q < p

\* C36: a streaming request whose upstream answered with a status outside
\* 200..299 is never answered with HTTP 200 and an event stream.
C36_UpstreamErrorNotRelayedAsStream ==
  Answered /\ request.stream /\ upstream.kind = "response" /\ ~Ok(upstream.status) =>
    response # [status |-> 200, body |-> "event_stream"]

\* C37: a message whose content is an array of text blocks goes upstream
\* with a single string as content: the texts of the blocks joined by a line
\* feed, and trimmed.
C37_TextBlocksCollapseToTrimmedString ==
  Converted =>
    LET outgoing == NonSystem(openaiRequest.messages)
        incoming == anthropicRequest.messages
    IN  Len(outgoing) = Len(incoming) =>
          \A i \in DOMAIN incoming :
            incoming[i].form = "blocks" /\ incoming[i].texts # <<>> =>
              outgoing[i].content = StringContent(Trim(JoinLines(incoming[i].texts)))

\* C38: the temperature and top_p that go upstream are those of the
\* incoming request, and are absent when the request omits them.
C38_SamplingParametersPassThrough ==
  pc = "sent" =>
    /\ callOptions.temperature = anthropicRequest.temperature
    /\ callOptions.topP = anthropicRequest.top_p

\* The same statement for the converter of the /v1/messages handler.
SamplingCopiedByConverter ==
  Converted =>
    /\ openaiRequest.temperature = anthropicRequest.temperature
    /\ openaiRequest.top_p = anthropicRequest.top_p

\* The content blocks of the request in the order they are converted.
RECURSIVE FlatParts(_)
FlatParts(messages) ==
  IF messages = <<>> THEN <<>>
  ELSE [i \in DOMAIN Head(messages).parts |->
          [role |-> Head(messages).role, part |-> Head(messages).parts[i]]]
       \o FlatParts(Tail(messages))

\* The tool_result at position k has no tool_use of its id before it.
Orphan(flat, k) ==
  /\ flat[k].part.type = "tool_result"
  /\ ~\E j \in 1..(k - 1) :
        flat[j].part.type = "tool_use" /\ flat[j].part.id = flat[k].part.id

\* C39: anthropicRequestToCallOptions throws when a tool_result has no
\* tool_use with the same id before it; every tool-result of a returned
\* prompt follows the tool-call of its id and carries that call's tool name.
C39_ToolResultNeedsEarlierToolUse ==
  pc = "converted" =>
    LET flat == FlatParts(anthropicRequest.messages)
        prompt == callOptions.prompt
    IN  /\ (\E k \in DOMAIN flat : Orphan(flat, k)) => callOptions.threw
        /\ ~callOptions.threw =>
             \A i \in DOMAIN prompt :
               prompt[i].content.type = "tool-result" =>
                 \E j \in 1..(i - 1) :
                   /\ prompt[j].content.type = "tool-call"
                   /\ prompt[j].content.toolCallId = prompt[i].content.toolCallId
                   /\ prompt[j].content.toolName = prompt[i].content.toolName

C39_Witness ==
  /\ pc = "converted"
  /\ anthropicRequest.messages =
       <<AiSdkMessage("assistant", "blocks", <<TextPart, ToolUsePart("t0", "f")>>),
         AiSdkMessage("user", "blocks", <<ToolResultPart("t0", FALSE, "string")>>)>>
  /\ ~callOptions.threw
  /\ callOptions.prompt =
       <<ModelMessage("assistant", ModelPart("text", "null", "null", "null")),
         ModelMessage("assistant", ModelPart("tool-call", "t0", "f", "null")),
         ModelMessage("tool", ModelPart("tool-result", "t0", "f", "text"))>>

\* C40: a stream transformer that has processed a data: [DONE] line has not
\* thrown: its output stream is not errored.
C40_DoneNeverThrows ==
  impl \in {"transformer", "legacy"} /\ (\E p \in DOMAIN fed : fed[p] = DoneMarker) =>
    ~legacy.errored

====
